---- MODULE Spec2Model ----
(***************************************************************************)
(* A model of the resume page script: the template resolver `render`, the  *)
(* section renderers, `main` in its three revisions (index.js, and the two *)
(* revisions kept in unnamed/part_000) and the delegated click handler.    *)
(*                                                                         *)
(* Text is a sequence of glyphs.  A glyph is one character, or one piece   *)
(* of text that the script only ever moves as a whole (an identifier, a    *)
(* chunk of a template literal).  JSON values are records [t, v]: t is the *)
(* JavaScript type, v the payload.                                         *)
(***************************************************************************)
EXTENDS Integers, Sequences, FiniteSets, TLC

\* ------------------------------------------------------------------ text

Digits == <<"0", "1", "2", "3", "4", "5", "6", "7", "8", "9">>

DigitGlyphs == {Digits[i] : i \in 1..Len(Digits)}

DigitValue(g) == (CHOOSE i \in 1..Len(Digits) : Digits[i] = g) - 1

\* String.prototype.trim's white space
WhiteSpace == {" ", "\n", "\t"}

\* the regular expression dot: any character but a line terminator
LineTerminators == {"\n"}

SubStr(s, from, to) == IF from > to THEN <<>> ELSE SubSeq(s, from, to)

\* F applied to the value of x: x is evaluated once, however often F uses it
Once(x, F(_)) == CHOOSE y \in {F(arg) : arg \in {x}} : TRUE

RECURSIVE NatToStr(_)
\* Number.prototype.toString for a natural number
NatToStr(n) == IF n < 10 THEN <<Digits[n + 1]>>
               ELSE NatToStr(n \div 10) \o <<Digits[(n % 10) + 1]>>

RECURSIVE StrToNat(_)
StrToNat(s) == IF s = <<>> THEN 0
               ELSE 10 * StrToNat(SubStr(s, 1, Len(s) - 1)) + DigitValue(s[Len(s)])

\* a property name that is an array index: the canonical decimal form
IsIndex(key) == /\ key # <<>>
                /\ \A i \in 1..Len(key) : key[i] \in DigitGlyphs
                /\ (Len(key) > 1 => key[1] # "0")

RECURSIVE TrimLeft(_)
TrimLeft(s) == IF s # <<>> /\ s[1] \in WhiteSpace THEN TrimLeft(Tail(s)) ELSE s

RECURSIVE TrimRight(_)
TrimRight(s) == IF s # <<>> /\ s[Len(s)] \in WhiteSpace
                THEN TrimRight(SubStr(s, 1, Len(s) - 1)) ELSE s

Trim(s) == TrimRight(TrimLeft(s))

\* whether `pat` occurs in `s` at position i
OccursAt(s, pat, i) == /\ i >= 1
                       /\ i + Len(pat) - 1 <= Len(s)
                       /\ \A k \in 1..Len(pat) : s[i + k - 1] = pat[k]

\* String.prototype.indexOf, 1-based, 0 when there is no occurrence
IndexOf(s, pat) ==
    Once(<<s, pat>>, LAMBDA a :
        IF \E i \in 1..(Len(a[1]) + 1) : OccursAt(a[1], a[2], i)
        THEN CHOOSE i \in 1..(Len(a[1]) + 1) :
                 /\ OccursAt(a[1], a[2], i)
                 /\ \A j \in 1..(i - 1) : ~OccursAt(a[1], a[2], j)
        ELSE 0)

Contains(s, pat) == IndexOf(s, pat) # 0

RECURSIVE Split(_, _)
\* String.prototype.split on a one-glyph separator
Split(s, sep) ==
    Once(<<s, IndexOf(s, <<sep>>)>>, LAMBDA a :
        IF a[2] = 0 THEN <<a[1]>>
        ELSE <<SubStr(a[1], 1, a[2] - 1)>>
             \o Split(SubStr(a[1], a[2] + 1, Len(a[1])), sep))

RECURSIVE Concat(_)
\* Array.prototype.join('') of a sequence of texts
Concat(ss) == IF ss = <<>> THEN <<>> ELSE Head(ss) \o Concat(Tail(ss))

\* ----------------------------------------------------------- JSON values

Undefined == [t |-> "undefined", v |-> 0]
Null == [t |-> "null", v |-> 0]
Bool(b) == [t |-> "boolean", v |-> b]
Num(n) == [t |-> "number", v |-> n]
Str(s) == [t |-> "string", v |-> s]
Arr(e) == [t |-> "array", v |-> e]
Obj(f) == [t |-> "object", v |-> f]

\* a one-glyph property name
K(g) == <<g>>

\* ToBoolean
Truthy(x) == CASE x.t = "undefined" -> FALSE
               [] x.t = "null" -> FALSE
               [] x.t = "boolean" -> x.v
               [] x.t = "number" -> x.v # 0
               [] x.t = "string" -> x.v # <<>>
               [] OTHER -> TRUE

\* obj[key] for a value that is neither null nor undefined: own properties,
\* array and string indices and `length` (inherited members are not modelled)
GetProp(x, key) ==
    CASE x.t = "object" -> IF key \in DOMAIN x.v THEN x.v[key] ELSE Undefined
      [] x.t = "array" ->
            IF IsIndex(key) /\ StrToNat(key) < Len(x.v) THEN x.v[StrToNat(key) + 1]
            ELSE IF key = K("length") THEN Num(Len(x.v))
            ELSE Undefined
      [] x.t = "string" ->
            IF IsIndex(key) /\ StrToNat(key) < Len(x.v) THEN Str(<<x.v[StrToNat(key) + 1]>>)
            ELSE IF key = K("length") THEN Num(Len(x.v))
            ELSE Undefined
      [] OTHER -> Undefined

\* a property read throws a TypeError on null and undefined
Nullish(x) == x.t \in {"undefined", "null"}

RECURSIVE ToStr(_)
RECURSIVE JoinComma(_)
\* Array.prototype.join(','): null and undefined elements give the empty text
JoinComma(e) == IF e = <<>> THEN <<>>
                ELSE (IF Nullish(e[1]) THEN <<>> ELSE ToStr(e[1]))
                     \o (IF Len(e) > 1 THEN <<",">> \o JoinComma(Tail(e)) ELSE <<>>)
\* ToString, as the template literals and String.prototype.replace apply it
ToStr(x) == CASE x.t = "undefined" -> <<"undefined">>
              [] x.t = "null" -> <<"null">>
              [] x.t = "boolean" -> IF x.v THEN <<"true">> ELSE <<"false">>
              [] x.t = "number" -> NatToStr(x.v)
              [] x.t = "string" -> x.v
              [] x.t = "array" -> JoinComma(x.v)
              [] OTHER -> <<"[object Object]">>

\* ------------------------------------------------------------- render

\* the end of the digit run that starts at position i (i - 1 when there is none)
RECURSIVE DigitRunEnd(_, _)
DigitRunEnd(s, i) == IF i <= Len(s) /\ s[i] \in DigitGlyphs
                     THEN DigitRunEnd(s, i + 1) ELSE i - 1

\* the brackets left as they are
BracketsKept(s) == s

RECURSIVE BracketsToDots(_)
\* path.replace(/\[(\d+)\]/g, '.$1')
BracketsToDots(s) ==
    IF s = <<>> THEN <<>>
    ELSE Once(<<s, DigitRunEnd(s, 2)>>, LAMBDA a :
             IF a[1][1] = "[" /\ a[2] >= 2 /\ a[2] + 1 <= Len(a[1])
                /\ a[1][a[2] + 1] = "]"
             THEN <<".">> \o SubStr(a[1], 2, a[2])
                  \o BracketsToDots(SubStr(a[1], a[2] + 2, Len(a[1])))
             ELSE <<a[1][1]>> \o BracketsToDots(Tail(a[1])))

\* const cleanPath = path.trim().replace(/\[(\d+)\]/g, '.$1')
CleanPath(path) == BracketsToDots(Trim(path))

\* the reducer of render: (obj && obj[key] !== undefined) ? obj[key] : undefined
StepStrict(obj, key) == IF Nullish(obj) THEN [t |-> "TypeError", v |-> 0]
                        ELSE IF obj.t = "TypeError" THEN obj
                        ELSE GetProp(obj, key)

Step(obj, key) == IF Truthy(obj) /\ GetProp(obj, key).t # "undefined"
                  THEN GetProp(obj, key) ELSE Undefined

RECURSIVE Reduce(_, _)
\* cleanPath.split('.').reduce(Step, data)
Reduce(keys, obj) ==
    Once(<<keys, obj>>, LAMBDA a :
        IF a[1] = <<>> THEN a[2] ELSE Reduce(Tail(a[1]), Step(a[2], Head(a[1]))))

Resolve(path, data) == Reduce(Split(CleanPath(path), "."), data)

\* the replacement the callback returns, as String.prototype.replace inserts it
Replacement(value) == IF value.t # "undefined" THEN ToStr(value) ELSE <<>>

\* the first position >= i of the closing pair cc that /oo(.*?)cc/ can reach
\* from an opening pair whose group starts at i: no line terminator in
\* between; 0 when there is none
RECURSIVE FindClose(_, _, _)
FindClose(s, i, c) == IF i + 1 > Len(s) THEN 0
                      ELSE IF s[i] = c /\ s[i + 1] = c THEN i
                      ELSE IF s[i] \in LineTerminators THEN 0
                      ELSE FindClose(s, i + 1, c)

RECURSIVE MatchesOf(_, _, _, _)
\* the matches of /oo(.*?)cc/g from position i on, left to right: [from, to]
\* are the match's bounds, path is the group
MatchesOf(s, i, o, c) ==
    IF i + 3 > Len(s) THEN <<>>
    ELSE Once(<<i, FindClose(s, i + 2, c)>>, LAMBDA a :
             IF s[a[1]] = o /\ s[a[1] + 1] = o /\ a[2] # 0
             THEN <<[from |-> a[1], to |-> a[2] + 1,
                     path |-> SubStr(s, a[1] + 2, a[2] - 1)]>>
                  \o MatchesOf(s, a[2] + 2, o, c)
             ELSE MatchesOf(s, a[1] + 1, o, c))

\* the matches of /\{\{(.*?)\}\}/g
Matches(s, i) == MatchesOf(s, i, "{", "}")

RECURSIVE Splice(_, _, _, _)
\* the template with each match replaced by its replacement
Splice(s, ms, reps, i) ==
    IF ms = <<>> THEN SubStr(s, i, Len(s))
    ELSE SubStr(s, i, ms[1].from - 1) \o reps[1]
         \o Splice(s, Tail(ms), Tail(reps), ms[1].to + 1)

\* the replacements of a template's placeholders, in order
Replacements(template, data) ==
    Once(Matches(template, 1), LAMBDA ms :
        <<>> \o [k \in 1..Len(ms) |-> Replacement(Resolve(ms[k].path, data))])

\* what a call that threw leaves in place of its result
Raised == <<"#TypeError">>

\* function render(template, data): an exception of the callback leaves replace
Render(template, data) ==
    Once(<<Matches(template, 1), Replacements(template, data)>>, LAMBDA x :
        IF \E k \in 1..Len(x[1]) : Resolve(x[1][k].path, data).t = "TypeError"
        THEN Raised
        ELSE Splice(template, x[1], x[2], 1))

\* ------------------------------------------------- JavaScript fragments
\* Markup is written with ' for the quotation mark inside a glyph.

TypeError == [t |-> "TypeError", v |-> 0]

\* x.key: a TypeError on null and undefined
Read(x, key) == IF x.t = "TypeError" \/ Nullish(x) THEN TypeError ELSE GetProp(x, key)

\* ${x} inside a template literal
Text(x) == IF x.t = "TypeError" THEN Raised ELSE ToStr(x)

\* a template literal, piece by piece: it throws when one of its pieces threw
Lit(parts) ==
    Once(parts, LAMBDA p : IF \E i \in 1..Len(p) : p[i] = Raised THEN Raised
                           ELSE Concat(p))

\* list.map(F).join(''): a TypeError when list is not an array
MapJoin(list, F(_)) ==
    Once(list, LAMBDA l : IF l.t # "array" THEN Raised
                          ELSE Lit(<<>> \o [i \in 1..Len(l.v) |-> F(l.v[i])]))

\* list.map((x, index) => F(x, index)).join('')
MapJoinIndexed(list, F(_, _)) ==
    Once(list, LAMBDA l : IF l.t # "array" THEN Raised
                          ELSE Lit(<<>> \o [i \in 1..Len(l.v) |-> F(l.v[i], i - 1)]))

\* the glyph of the grave accent character
Grave == "grave-accent"

RECURSIVE ExpandFrom(_, _, _, _, _)
\* GetSubstitution from position i of the replacement text on: $$, $&, $' and
\* $ before a grave accent are expanded
ExpandFrom(repl, i, s, pos, pat) ==
    IF i > Len(repl) THEN <<>>
    ELSE IF repl[i] = "$" /\ i < Len(repl) /\ repl[i + 1] \in {"$", "&", Grave, "'"}
         THEN (CASE repl[i + 1] = "$" -> <<"$">>
                 [] repl[i + 1] = "&" -> pat
                 [] repl[i + 1] = Grave -> SubStr(s, 1, pos - 1)
                 [] OTHER -> SubStr(s, pos + Len(pat), Len(s)))
              \o ExpandFrom(repl, i + 2, s, pos, pat)
         ELSE <<repl[i]>> \o ExpandFrom(repl, i + 1, s, pos, pat)

\* the replacement text of String.prototype.replace with a string pattern
Expand(repl, s, pos, pat) ==
    IF \A i \in 1..Len(repl) : repl[i] # "$" THEN repl
    ELSE ExpandFrom(repl, 1, s, pos, pat)

\* s.replace(pat, repl) for a string pattern: the first occurrence only
StrReplace(s, pat, repl) ==
    Once(<<s, repl>>, LAMBDA x :
        IF x[1] = Raised \/ x[2] = Raised THEN Raised
        ELSE LET i == IndexOf(x[1], pat)
             IN  IF i = 0 THEN x[1]
                 ELSE SubStr(x[1], 1, i - 1) \o Expand(x[2], x[1], i, pat)
                      \o SubStr(x[1], i + Len(pat), Len(x[1])))

\* -------------------------------------- render, inline-template revision

\* the identifiers of the data document and of the paths
Identifiers ==
    {"a", "n", "length", "nav", "title", "social", "href", "icon", "onclick",
     "personal_info", "avatar_img", "connections", "text", "summary_section",
     "content", "about_me_section", "paragraphs", "skills_section", "skills",
     "name", "info", "items", "certificates", "description", "img_src", "alt",
     "portfolio_section", "note", "projects", "award", "link", "images", "src",
     "logo", "autobiography_section", "title_en", "paragraphs_ch",
     "paragraphs_en", "experience_section", "jobs", "company", "duration"}

\* \w, and the dot of the class [\w\.]
PathGlyphs == DigitGlyphs \cup Identifiers \cup {"_", "."}

RECURSIVE PathRunEnd(_, _)
PathRunEnd(s, i) == IF i <= Len(s) /\ s[i] \in PathGlyphs
                    THEN PathRunEnd(s, i + 1) ELSE i - 1

RECURSIVE MatchesStrict(_, _)
\* the matches of /\{\{([\w\.]*)\}\}/g from position i on
MatchesStrict(s, i) ==
    IF i + 3 > Len(s) THEN <<>>
    ELSE Once(<<i, PathRunEnd(s, i + 2)>>, LAMBDA a :
             IF s[a[1]] = "{" /\ s[a[1] + 1] = "{" /\ a[2] + 2 <= Len(s)
                /\ s[a[2] + 1] = "}" /\ s[a[2] + 2] = "}"
             THEN <<[from |-> a[1], to |-> a[2] + 2,
                     path |-> SubStr(s, a[1] + 2, a[2])]>>
                  \o MatchesStrict(s, a[2] + 3)
             ELSE MatchesStrict(s, a[1] + 1))

RECURSIVE ReduceStrict(_, _)
\* key.split('.').reduce((obj, i) => obj[i], data)
ReduceStrict(keys, obj) ==
    Once(<<keys, obj>>, LAMBDA a :
        IF a[1] = <<>> THEN a[2] ELSE ReduceStrict(Tail(a[1]), Read(a[2], Head(a[1]))))

\* function render(template, data) of the inline-template revision
RenderStrict(template, data) ==
    Once(MatchesStrict(template, 1), LAMBDA ms :
    Once(<<>> \o [k \in 1..Len(ms) |-> ReduceStrict(Split(ms[k].path, "."), data)],
         LAMBDA vals :
        IF \E k \in 1..Len(ms) : vals[k].t = "TypeError" THEN Raised
        ELSE Splice(template, ms, <<>> \o [k \in 1..Len(ms) |-> ToStr(vals[k])], 1)))

\* --------------------------------------------------- section renderers
\* v is the revision: "index" (index.js), "inline" (part_000, lines 1-308)
\* or "finally" (part_000, lines 309-661).  c is the container's innerHTML,
\* or Absent when getElementById found no element.

Revisions == {"index", "inline", "finally"}

Absent == <<"#no-element">>

\* what a renderer did: the container's content after it, whether it assigned
\* innerHTML, whether it threw
Skip(c) == [html |-> c, wrote |-> FALSE, fault |-> FALSE]

\* a renderer that keeps its exception to itself
ThrowSwallowed(c) == [html |-> c, wrote |-> FALSE, fault |-> FALSE]

\* an exception leaves the renderer: nothing is assigned
Throw(c) == [html |-> c, wrote |-> FALSE, fault |-> TRUE]

\* container.innerHTML += text
AssignAppended(c, text) ==
    Once(text, LAMBDA t : IF t = Raised \/ c = Absent THEN Throw(c)
                          ELSE [html |-> c \o t, wrote |-> TRUE, fault |-> FALSE])

\* container.innerHTML = text
Assign(c, text) ==
    Once(text, LAMBDA t : IF t = Raised \/ c = Absent THEN Throw(c)
                          ELSE [html |-> t, wrote |-> TRUE, fault |-> FALSE])

\* no revision has entry guards
GuardedNever(v) == FALSE

\* the inline-template revision has no entry guards
Guarded(v) == v # "inline"

\* if (!container || !data.<key>) return;
Entry(v, c, data, key) ==
    IF ~Guarded(v) THEN "go"
    ELSE IF c = Absent THEN "return"
    ELSE IF Nullish(data) THEN "throw"
    ELSE IF ~Truthy(GetProp(data, key)) THEN "return"
    ELSE "go"

RenderOf(v, template, data) ==
    Once(template, LAMBDA t :
        IF v = "inline" THEN RenderStrict(t, data) ELSE Render(t, data))

\* renderedHtml.replace(marker, marker + items); the inline-template revision
\* replaces the whole empty element
Fill(v, html, open, marker, close, items) ==
    IF v = "inline"
    THEN StrReplace(html, open \o marker \o close, Lit(<<open \o marker, items, close>>))
    ELSE StrReplace(html, marker, Lit(<<marker, items>>))

\* a renderer's outcome, from its guard and the markup it computed
Outcome(go, c, html) ==
    IF go = "return" THEN Skip(c)
    ELSE IF go = "throw" THEN Throw(c)
    ELSE Assign(c, html)

SocialLink(item) ==
    Lit(<< <<"<a class='social-media-link' href='">>, Text(Read(item, K("href"))),
           <<"' target='_blank' ">>,
           IF Truthy(Read(item, K("onclick")))
           THEN Lit(<< <<"onclick='">>, Text(Read(item, K("onclick"))), <<"'">> >>)
           ELSE <<>>,
           <<"><i class='">>, Text(Read(item, K("icon"))), <<"'></i></a>">> >>)

RenderHeader(v, c, template, data) ==
    LET renderedHtml == RenderOf(v, template, data)
        socialLinksHtml ==
            MapJoin(Read(Read(data, K("nav")), K("social")), SocialLink)
    IN  Outcome(Entry(v, c, data, K("nav")), c,
                StrReplace(renderedHtml, <<"<div class='social-media'>", "</div>">>,
                           Lit(<< <<"<div class='social-media'>">>, socialLinksHtml,
                                  <<"</div>">> >>)))

Connection(item) ==
    Lit(<< <<"<div class='connection'><i class='">>, Text(Read(item, K("icon"))),
           <<" social-media-link'></i>">>, Text(Read(item, K("text"))), <<"</div>">> >>)

RenderPersonalInfo(v, c, template, data) ==
    LET renderedHtml == RenderOf(v, template, data)
        connectionsHtml ==
            MapJoin(Read(Read(data, K("personal_info")), K("connections")), Connection)
    IN  Outcome(Entry(v, c, data, K("personal_info")), c,
                Fill(v, renderedHtml, <<"<div ">>, <<"class='connection-group'>">>,
                     <<"</div>">>, connectionsHtml))

SkillItem(item) == Lit(<< <<"<li>">>, Text(item), <<"</li>">> >>)

Skill(v, skill) ==
    Lit(<< IF v = "finally" THEN <<"<div>">> ELSE <<"<div class='col-12 col-md-4'>">>,
           <<"<h3 class='skill-name'>">>, Text(Read(skill, K("name"))), <<"</h3>">>,
           <<"<p class='skill-info'>">>, Text(Read(skill, K("info"))), <<"</p>">>,
           <<"<ul>">>, MapJoin(Read(skill, K("items")), SkillItem), <<"</ul>">>,
           <<"</div>">> >>)

\* the "./img/" the finally revision writes before an image's source
ImgDir(v) == IF v = "finally" THEN <<"./img/">> ELSE <<>>

Certificate(v, cert) ==
    Lit(<< <<"<div class='col-12 col-md-6'>">>,
           <<"<p class='skill-description'>">>, Text(Read(cert, K("description"))), <<"</p>">>,
           <<"<img class='skill-img' src='">>, ImgDir(v), Text(Read(cert, K("img_src"))),
           <<"' alt='">>, Text(Read(cert, K("alt"))), <<"' />">>,
           <<"<div class='more-item'>", "<div class='more-inf'>", "<div class='more-base'>",
             "<span class='close'>&times;</span>", "<div class='scroll'>">>,
           <<"<img class='skill-img-big' src='">>, ImgDir(v), Text(Read(cert, K("img_src"))),
           <<"' alt='">>, Text(Read(cert, K("alt"))), <<"' />">>,
           <<"</div>", "</div>", "</div>", "</div>">>,
           <<"</div>">> >>)

RenderSkills(v, c, template, data) ==
    LET section == Read(data, K("skills_section"))
        renderedHtml == RenderOf(v, template, data)
        skillsHtml == MapJoin(Read(section, K("skills")), LAMBDA x : Skill(v, x))
        withSkills == Fill(v, renderedHtml, <<"<div class='skills' ">>,
                           <<"id='skills-list'>">>, <<"</div>">>, skillsHtml)
        certificatesHtml == MapJoin(Read(Read(section, K("certificates")), K("items")),
                                    LAMBDA x : Certificate(v, x))
    IN  Outcome(Entry(v, c, data, K("skills_section")), c,
                Fill(v, withSkills, <<"<div class='skills' ">>,
                     <<"id='certificates-list'>">>, <<"</div>">>, certificatesHtml))

\* content.replace(/\n/g, '<br>'): a TypeError when content is not a string
BreakLines(x) ==
    IF x.t # "string" THEN Raised
    ELSE [i \in 1..Len(x.v) |-> IF x.v[i] = "\n" THEN "<br>" ELSE x.v[i]]

\* item.replace(/\*\*(.*?)\*\*/g, '<strong>$1</strong>'): a TypeError when item
\* is not a string
Bold(x) ==
    IF x.t # "string" THEN Raised
    ELSE LET ms == MatchesOf(x.v, 1, "*", "*")
         IN  Splice(x.v, ms,
                    [k \in 1..Len(ms) |-> <<"<strong>">> \o ms[k].path \o <<"</strong>">>], 1)

\* Array.isArray(x) ? x : [x]
AsArray(x) == IF x.t = "array" THEN x ELSE Arr(<<x>>)

SummaryItem(item) == Lit(<< <<"<p class='summary-item'>">>, Bold(item), <<"</p>">> >>)

\* renderSummary: index.js 123-130; the finally revision, part_000 431-446
RenderSummary(v, c, template, data) ==
    LET content == Read(Read(data, K("summary_section")), K("content"))
        renderedHtml == RenderOf(v, template, data)
        contentHtml == IF v = "finally"
                       THEN IF content.t = "TypeError" THEN Raised
                            ELSE MapJoin(AsArray(content), SummaryItem)
                       ELSE IF content.t = "TypeError" THEN Raised
                            ELSE BreakLines(content)
    IN  Outcome(Entry(v, c, data, K("summary_section")), c,
                StrReplace(renderedHtml, <<"id='summary-text'>">>,
                           Lit(<< <<"id='summary-text'>">>, contentHtml >>)))

AboutMeParagraph(p) == Lit(<< <<"<p class='about-me-paragraph'>">>, Bold(p), <<"</p>">> >>)

\* renderAboutMe: it assigns the resolved template before it maps the paragraphs
RenderAboutMe(v, c, template, data) ==
    IF c = Absent \/ ~Truthy(data) \/ ~Truthy(GetProp(data, K("about_me_section")))
    THEN Skip(c)
    ELSE LET renderedHtml == RenderOf(v, template, data)
             paragraphs == AsArray(Read(Read(data, K("about_me_section")), K("paragraphs")))
             paragraphsHtml == MapJoin(paragraphs, AboutMeParagraph)
         IN  IF paragraphsHtml = Raised
             THEN [html |-> renderedHtml, wrote |-> TRUE, fault |-> TRUE]
             ELSE Assign(c,
                         StrReplace(renderedHtml, <<"id='about-me-text'>">>,
                                    Lit(<< <<"id='about-me-text'>">>, paragraphsHtml >>)))

ProjectImage(v, img) ==
    Lit(<< IF v = "finally" THEN <<"<div class='portfolio-img-black'>">>
           ELSE <<"<div class='portfolio-img-black index-farm-black'>">>,
           <<"<img class='portfolio-img' src='">>, ImgDir(v), Text(Read(img, K("src"))),
           <<"' alt='">>, Text(Read(img, K("alt"))), <<"' />">>, <<"</div>">> >>)

Project(v, project) ==
    Lit(<< <<"<div class='col-12'>", "<h3 class='skill-name'>">>,
           Text(Read(project, K("title"))), <<" ">>,
           IF Truthy(Read(project, K("award")))
           THEN Lit(<< <<"<span class='note'>">>, Text(Read(project, K("award"))),
                       <<"</span>">> >>)
           ELSE <<>>,
           <<"</h3>">>,
           <<"<p>">>, Text(Read(project, K("description"))), <<"</p>">>,
           <<"<a class='portfolio-link' href='">>, Text(Read(project, K("link"))),
           <<"' target='_blank' rel='noopener noreferrer'>">>,
           MapJoin(Read(project, K("images")), LAMBDA x : ProjectImage(v, x)),
           <<"<img class='portfolio-logo' src='">>, ImgDir(v),
           Text(Read(Read(project, K("logo")), K("src"))),
           <<"' alt='">>, Text(Read(Read(project, K("logo")), K("alt"))), <<"' />">>,
           <<"</a>", "</div>">> >>)

RenderPortfolio(v, c, template, data) ==
    LET renderedHtml == RenderOf(v, template, data)
        projectsHtml == MapJoin(Read(Read(data, K("portfolio_section")), K("projects")),
                                LAMBDA x : Project(v, x))
    IN  Outcome(Entry(v, c, data, K("portfolio_section")), c,
                Fill(v, renderedHtml, <<"<div class='skills' ">>,
                     <<"id='portfolio-list'>">>, <<"</div>">>, projectsHtml))

ParagraphCh(p) == Lit(<< <<"<p class='description'>">>, Text(p), <<"</p>">> >>)

RenderAutobiographyCh(v, c, template, data) ==
    LET renderedHtml == RenderOf(v, template, data)
        paragraphsHtml ==
            MapJoin(Read(Read(data, K("autobiography_section")), K("paragraphs_ch")),
                    ParagraphCh)
    IN  Outcome(Entry(v, c, data, K("autobiography_section")), c,
                Fill(v, renderedHtml, <<"<div ">>, <<"id='autobio-ch-paragraphs'>">>,
                     <<"</div>">>, paragraphsHtml))

ParagraphEn(p) == Lit(<< <<"<p class='description-en'>">>, Text(p), <<"</p>">> >>)

RenderAutobiographyEn(v, c, template, data) ==
    LET renderedHtml == RenderOf(v, template, data)
        paragraphsHtml ==
            MapJoin(Read(Read(data, K("autobiography_section")), K("paragraphs_en")),
                    ParagraphEn)
    IN  Outcome(Entry(v, c, data, K("autobiography_section")), c,
                Fill(v, renderedHtml, <<"<div ">>, <<"id='autobio-en-paragraphs'>">>,
                     <<"</div>">>, paragraphsHtml))

ExperienceDetail(item) == Lit(<< <<"<li class='experience-detail'>">>, Text(item), <<"</li>">> >>)

\* the inline-template revision: job.description.split('\n').map(p =>
\* `<p class="description">${p.trim()}</p>`).join('')
DescriptionLines(description) ==
    IF description.t # "string" THEN Raised
    ELSE LET lines == Split(description.v, "\n")
         IN  Concat([i \in 1..Len(lines) |->
                        <<"<p class='description'>">> \o Trim(lines[i]) \o <<"</p>">>])

Job(v, job, index) ==
    IF v = "inline"
    THEN Lit(<< IF index > 0 THEN <<"<hr />">> ELSE <<>>,
                <<"<div class='experience-item'>", "<h3 class='job-title'>">>,
                Text(Read(job, K("title"))), <<"</h3>">>,
                <<"<div class='job-note'>", "<span class='company'>",
                  "<i class='fa-solid fa-building'></i>">>,
                Text(Read(job, K("company"))), <<"</span>">>,
                <<"<span class='duration'>", "<i class='fa-solid fa-calendar-days'></i>">>,
                Text(Read(job, K("duration"))), <<"</span>", "</div>">>,
                IF Read(job, K("description")).t = "TypeError" THEN Raised
                ELSE DescriptionLines(Read(job, K("description"))),
                <<"</div>">> >>)
    ELSE LET description == Read(job, K("description"))
             descriptions == IF description.t = "array" THEN description ELSE Arr(<<>>)
             descListHtml == IF description.t = "TypeError" THEN Raised
                             ELSE MapJoin(descriptions, ExperienceDetail)
         IN  Lit(<< IF v = "index" /\ index > 0 THEN <<"<hr />">> ELSE <<>>,
                    <<"<div class='experience-item'>", "<h3 class='job-title'>">>,
                    Text(Read(job, K("title"))), <<"</h3>">>,
                    <<"<div class='job-note'>", "<span class='company'>",
                      "<i class='fa-solid fa-building'></i>", " ">>,
                    Text(Read(job, K("company"))), <<"</span>">>,
                    <<"<span class='duration'>", "<i class='fa-solid fa-calendar-days'></i>",
                      " ">>,
                    Text(Read(job, K("duration"))), <<"</span>", "</div>">>,
                    <<"<ul class='experience-details-list'>">>, descListHtml, <<"</ul>">>,
                    <<"</div>">> >>)

RenderExperience(v, c, template, data) ==
    LET renderedHtml == RenderOf(v, template, data)
        jobsHtml == MapJoinIndexed(Read(Read(data, K("experience_section")), K("jobs")),
                                   LAMBDA x, i : Job(v, x, i))
    IN  Outcome(Entry(v, c, data, K("experience_section")), c,
                Fill(v, renderedHtml, <<"<div class='experience' ">>,
                     <<"id='experience-list'>">>, <<"</div>">>, jobsHtml))

\* ------------------------------------------------- templates and order

\* the keys of main's `templates` and `containers` objects
Sections == {"header", "personalInfo", "summary", "aboutMe", "skills", "portfolio",
             "autobioCh", "autobioEn", "experience"}

\* {{a.b}} as glyphs
Hole(a, b) == <<"{", "{", a, ".", b, "}", "}">>

\* the template fragments: those of the inline-template revision (part_000
\* 248-278); the summary and about-me fragments carry the markers their
\* renderers look for
TemplateText(name) ==
    CASE name = "header" ->
            <<"<nav>", "<span class='nav-title'>">> \o Hole("nav", "title")
            \o <<"</span>", "<div class='social-media'>", "</div>", "</nav>">>
      [] name = "personalInfo" ->
            <<"<div class='avatar'>", "<img class='skill-img avatar-img' src='">>
            \o Hole("personal_info", "avatar_img")
            \o <<"' />", "<div class='more-item'>", "<div class='more-inf'>",
                 "<div class='more-base'>", "<span class='close'>&times;</span>",
                 "<div class='scroll'>", "<img class='skill-img-big' src='">>
            \o Hole("personal_info", "avatar_img")
            \o <<"' />", "</div>", "</div>", "</div>", "</div>", "</div>",
                 "<div class='title'>">>
            \o Hole("personal_info", "title")
            \o <<"</div>", "<div ", "class='connection-group'>", "</div>">>
      [] name = "summary" ->
            <<"<h2>">> \o Hole("summary_section", "title")
            \o <<"</h2>", "<p ", "id='summary-text'>", "</p>">>
      [] name = "aboutMe" ->
            <<"<h2>">> \o Hole("about_me_section", "title")
            \o <<"</h2>", "<div ", "id='about-me-text'>", "</div>">>
      [] name = "skills" ->
            <<"<h2>">> \o Hole("skills_section", "title")
            \o <<"</h2>", "<div class='skills' ", "id='skills-list'>", "</div>", "<h3>",
                 "{", "{", "skills_section", ".", "certificates", ".", "title", "}", "}",
                 "</h3>", "<div class='skills' ", "id='certificates-list'>", "</div>">>
      [] name = "portfolio" ->
            <<"<h2>">> \o Hole("portfolio_section", "title") \o <<"<span class='note'>">>
            \o Hole("portfolio_section", "note")
            \o <<"</span>", "</h2>", "<div class='skills' ", "id='portfolio-list'>", "</div>">>
      [] name = "autobioCh" ->
            <<"<h2>">> \o Hole("autobiography_section", "title")
            \o <<"</h2>", "<div ", "id='autobio-ch-paragraphs'>", "</div>">>
      [] name = "autobioEn" ->
            <<"<h2>">> \o Hole("autobiography_section", "title_en")
            \o <<"</h2>", "<div ", "id='autobio-en-paragraphs'>", "</div>">>
      [] OTHER ->
            <<"<h2>">> \o Hole("experience_section", "title")
            \o <<"</h2>", "<div class='experience' ", "id='experience-list'>", "</div>">>

\* the template files main fetches, in the order of its awaits
TemplateOrder(v) ==
    CASE v = "index" -> <<"header", "personalInfo", "summary", "skills", "portfolio",
                          "autobioCh", "autobioEn", "experience">>
      [] v = "finally" -> <<"header", "personalInfo", "summary", "aboutMe", "skills",
                            "portfolio", "autobioCh", "autobioEn", "experience">>
      [] OTHER -> <<>>

\* the containers main looks up
ContainerNames(v) ==
    CASE v = "index" -> Sections \ {"aboutMe"}
      [] v = "finally" -> Sections
      [] OTHER -> Sections \ {"summary", "aboutMe"}

\* the renderers called in the order their templates are fetched
RenderOrderAsFetched(v) ==
    IF TemplateOrder(v) # <<>> THEN TemplateOrder(v)
    ELSE <<"header", "personalInfo", "skills", "portfolio", "autobioCh", "autobioEn",
           "experience">>

\* the renderers main calls, in order
RenderOrder(v) ==
    CASE v = "index" -> <<"header", "personalInfo", "summary", "experience", "skills",
                          "portfolio", "autobioCh", "autobioEn">>
      [] v = "finally" -> <<"header", "personalInfo", "summary", "aboutMe", "experience",
                            "skills", "portfolio", "autobioEn">>
      [] OTHER -> <<"header", "personalInfo", "skills", "portfolio", "autobioCh",
                    "autobioEn", "experience">>

\* the call main makes for one section
Renderer(name, v, c, template, data) ==
    CASE name = "header" -> RenderHeader(v, c, template, data)
      [] name = "personalInfo" -> RenderPersonalInfo(v, c, template, data)
      [] name = "summary" -> RenderSummary(v, c, template, data)
      [] name = "aboutMe" -> RenderAboutMe(v, c, template, data)
      [] name = "skills" -> RenderSkills(v, c, template, data)
      [] name = "portfolio" -> RenderPortfolio(v, c, template, data)
      [] name = "autobioCh" -> RenderAutobiographyCh(v, c, template, data)
      [] name = "autobioEn" -> RenderAutobiographyEn(v, c, template, data)
      [] OTHER -> RenderExperience(v, c, template, data)

\* the data document's key of a section
SectionKey(name) ==
    CASE name = "header" -> K("nav")
      [] name = "personalInfo" -> K("personal_info")
      [] name = "summary" -> K("summary_section")
      [] name = "aboutMe" -> K("about_me_section")
      [] name = "skills" -> K("skills_section")
      [] name = "portfolio" -> K("portfolio_section")
      [] name = "autobioCh" -> K("autobiography_section")
      [] name = "autobioEn" -> K("autobiography_section")
      [] OTHER -> K("experience_section")

\* ------------------------------------------------------ overlays, clicks

MoreItemGlyph == "<div class='more-item'>"

\* the overlays (.more-item elements) of a container's markup, numbered in
\* document order; the markup puts each right after its img.skill-img
OverlaysOf(name, html) ==
    {<<name, i>> : i \in 1..Cardinality({k \in 1..Len(html) : html[k] = MoreItemGlyph})}

\* the elements of an overlay's markup; "other" is any element outside
Parts == {"skill-img", "more-item", "more-inf", "more-base", "close", "scroll",
          "skill-img-big"}

NoElement == [ov |-> <<"none", 0>>, part |-> "null"]

Elsewhere == [ov |-> <<"none", 0>>, part |-> "other"]

ClassList(e) == IF e.part \in Parts THEN {e.part} ELSE {}

\* the markup: img.skill-img is followed by div.more-item
NextElementSibling(e) ==
    IF e.part = "skill-img" THEN [ov |-> e.ov, part |-> "more-item"] ELSE NoElement

\* an element and its ancestors up to the overlay's wrapping div, inside out
Ancestry(part) ==
    CASE part = "skill-img-big" -> <<"skill-img-big", "scroll", "more-base", "more-inf",
                                     "more-item">>
      [] part = "scroll" -> <<"scroll", "more-base", "more-inf", "more-item">>
      [] part = "close" -> <<"close", "more-base", "more-inf", "more-item">>
      [] part = "more-base" -> <<"more-base", "more-inf", "more-item">>
      [] part = "more-inf" -> <<"more-inf", "more-item">>
      [] part = "more-item" -> <<"more-item">>
      [] OTHER -> <<>>

\* target.closest(".more-item")
ClosestMoreItem(e) ==
    IF \E i \in 1..Len(Ancestry(e.part)) : Ancestry(e.part)[i] = "more-item"
    THEN [ov |-> e.ov, part |-> "more-item"] ELSE NoElement

\* target.closest('div').querySelector(".more-item"): the wrapping div of an
\* image holds the image's overlay
InClosestDiv(e) ==
    IF e.part \in Parts THEN [ov |-> e.ov, part |-> "more-item"] ELSE NoElement

Threshold == 1024

\* a threshold that leaves the width 1024 out
IsSmallScreenStrict(innerWidth) == innerWidth > Threshold

\* function isSmallScreen(): true when the window is wide
IsSmallScreen(innerWidth) == innerWidth >= Threshold

\* a handler that shows every overlay when an image is clicked
OnClickShowsAll(target, width, display) ==
    IF IsSmallScreen(width) /\ "skill-img" \in ClassList(target)
    THEN [o \in DOMAIN display |-> "block"] ELSE display

\* mainContainer.onclick: `display` maps each overlay to its style.display
OnClick(target, width, display) ==
    IF ~IsSmallScreen(width) THEN display
    ELSE LET sibling == NextElementSibling(target)
             moreItem == IF sibling = NoElement \/ "more-item" \notin ClassList(sibling)
                         THEN InClosestDiv(target) ELSE sibling
             d1 == IF "skill-img" \in ClassList(target) /\ moreItem # NoElement
                   THEN [display EXCEPT ![moreItem.ov] = "block"] ELSE display
             d2 == IF "close" \in ClassList(target) /\ ClosestMoreItem(target) # NoElement
                   THEN [d1 EXCEPT ![ClosestMoreItem(target).ov] = "none"] ELSE d1
             d3 == IF "more-inf" \in ClassList(target) /\ ClosestMoreItem(target) # NoElement
                   THEN [d2 EXCEPT ![ClosestMoreItem(target).ov] = "none"] ELSE d2
         IN  d3

\* the elements a click can land on
Targets(display) == {[ov |-> o, part |-> p] : o \in DOMAIN display, p \in Parts}
                    \cup {Elsewhere}

\* ------------------------------------------------ the page and its data

S(g) == Str(<<g>>)

\* a data document with every section, as each revision's renderers read it:
\* a job's description is a text with line breaks in the inline-template
\* revision and a list later; summary content is a list in the finally revision
BaseDocument(v) ==
    Obj(  K("nav") :> Obj(K("title") :> S("Resume")
                          @@ K("social") :> Arr(<<Obj(K("href") :> S("https://x")
                                                      @@ K("icon") :> S("fa-x")),
                                                  Obj(K("href") :> S("#")
                                                      @@ K("icon") :> S("fa-print")
                                                      @@ K("onclick") :> S("printPage()"))>>))
       @@ K("personal_info") :>
              Obj(K("avatar_img") :> S("me.png") @@ K("title") :> S("Engineer")
                  @@ K("connections") :> Arr(<<Obj(K("icon") :> S("fa-mail")
                                                   @@ K("text") :> S("me@x"))>>))
       @@ K("summary_section") :>
              Obj(K("title") :> S("Summary")
                  @@ K("content") :>
                         (IF v = "finally"
                          THEN Arr(<<Str(<<"*", "*", "key", "*", "*", " point">>), S("more")>>)
                          ELSE Str(<<"line one", "\n", "line two">>)))
       @@ K("about_me_section") :>
              Obj(K("title") :> S("About") @@ K("paragraphs") :> Arr(<<S("about")>>))
       @@ K("experience_section") :>
              Obj(K("title") :> S("Experience")
                  @@ K("jobs") :>
                         Arr(<<Obj(K("title") :> S("Eng") @@ K("company") :> S("Acme")
                                   @@ K("duration") :> S("2020-2022")
                                   @@ K("description") :>
                                          (IF v = "inline"
                                           THEN Str(<<"did X", "\n", " ", "did Y">>)
                                           ELSE Arr(<<S("did X"), S("did Y")>>))),
                               Obj(K("title") :> S("Dev") @@ K("company") :> S("Bolt")
                                   @@ K("duration") :> S("2018-2020")
                                   @@ K("description") :>
                                          (IF v = "inline" THEN S("did Z")
                                           ELSE Arr(<<S("did Z")>>)))>>))
       @@ K("skills_section") :>
              Obj(K("title") :> S("Skills")
                  @@ K("skills") :>
                         Arr(<<Obj(K("name") :> S("A") @@ K("info") :> S("i1")
                                   @@ K("items") :> Arr(<<S("x")>>)),
                               Obj(K("name") :> S("B") @@ K("info") :> S("i2")
                                   @@ K("items") :> Arr(<<S("y"), S("z")>>))>>)
                  @@ K("certificates") :>
                         Obj(K("title") :> S("Certificates")
                             @@ K("items") :>
                                    Arr(<<Obj(K("description") :> S("cert one")
                                              @@ K("img_src") :> S("c1.png")
                                              @@ K("alt") :> S("c1"))>>)))
       @@ K("portfolio_section") :>
              Obj(K("title") :> S("Portfolio") @@ K("note") :> S("selected")
                  @@ K("projects") :>
                         Arr(<<Obj(K("title") :> S("Farm") @@ K("award") :> S("gold")
                                   @@ K("description") :> S("a game")
                                   @@ K("link") :> S("https://farm")
                                   @@ K("images") :> Arr(<<Obj(K("src") :> S("f1.png")
                                                           @@ K("alt") :> S("f1"))>>)
                                   @@ K("logo") :> Obj(K("src") :> S("logo.png")
                                                       @@ K("alt") :> S("logo")))>>))
       @@ K("autobiography_section") :>
              Obj(K("title") :> S("Autobiography zh") @@ K("title_en") :> S("Autobiography")
                  @@ K("paragraphs_ch") :> Arr(<<S("zh one"), S("zh two")>>)
                  @@ K("paragraphs_en") :> Arr(<<S("en one")>>)))

\* the lists the renderers map over, as paths into the document
ListPaths ==
    { <<"nav", "social">>, <<"personal_info", "connections">>,
      <<"skills_section", "skills">>, <<"skills_section", "certificates", "items">>,
      <<"portfolio_section", "projects">>, <<"autobiography_section", "paragraphs_ch">>,
      <<"autobiography_section", "paragraphs_en">>, <<"experience_section", "jobs">> }

SectionPaths == {<<SectionKey(name)[1]>> : name \in Sections}

\* a job whose description renderExperience cannot list: the first job
\* without the key, the second with a number in it
BadDescriptions == {[kind |-> "description", at |-> <<how>>] : how \in {"absent", "number"}}

\* what a page and its document may lack: a key of the document, a container
\* element, the main element, the loader element; or the document is null
Defects ==
    {[kind |-> "drop", at |-> p] : p \in ListPaths \cup SectionPaths}
    \cup BadDescriptions
    \cup {[kind |-> "no-container", at |-> <<name>>] : name \in Sections}
    \cup {[kind |-> "no-main", at |-> <<>>], [kind |-> "no-loader", at |-> <<>>],
          [kind |-> "null-document", at |-> <<>>]}

\* the most defects of one page
MaxDefects == 1

RECURSIVE DefectSetsUpTo(_)
DefectSetsUpTo(k) ==
    IF k = 0 THEN {{}}
    ELSE LET smaller == DefectSetsUpTo(k - 1)
         IN  smaller \cup {s \cup {d} : s \in smaller, d \in Defects}

RECURSIVE DropAt(_, _)
\* the document without the key at a path
DropAt(x, path) ==
    IF x.t # "object" \/ K(path[1]) \notin DOMAIN x.v THEN x
    ELSE IF Len(path) = 1
         THEN Obj([k \in DOMAIN x.v \ {K(path[1])} |-> x.v[k]])
         ELSE Obj([x.v EXCEPT ![K(path[1])] = DropAt(@, Tail(path))])

\* the document with the description of a job taken out or replaced, where
\* the document has the job
WithDescription(doc, how) ==
    IF doc.t # "object" \/ K("experience_section") \notin DOMAIN doc.v THEN doc
    ELSE LET section == doc.v[K("experience_section")]
         IN  IF section.t # "object" \/ K("jobs") \notin DOMAIN section.v THEN doc
             ELSE LET jobs == section.v[K("jobs")].v
                      i == IF how = "absent" THEN 1 ELSE 2
                      job == IF how = "absent" THEN DropAt(jobs[i], <<"description">>)
                             ELSE Obj([jobs[i].v EXCEPT ![K("description")] = Num(17)])
                 IN  Obj([doc.v EXCEPT ![K("experience_section")] =
                            Obj([section.v EXCEPT ![K("jobs")] =
                                   Arr([jobs EXCEPT ![i] = job])])])

RECURSIVE ApplyDrops(_, _)
ApplyDrops(doc, ds) ==
    IF ds = {} THEN doc
    ELSE LET d == CHOOSE d \in ds : TRUE
         IN  ApplyDrops(CASE d.kind = "drop" -> DropAt(doc, d.at)
                          [] d.kind = "description" -> WithDescription(doc, d.at[1])
                          [] OTHER -> doc,
                        ds \ {d})

\* the document data.json holds
ServedDocument(v, ds) ==
    IF [kind |-> "null-document", at |-> <<>>] \in ds THEN Null
    ELSE ApplyDrops(BaseDocument(v), ds)

Widths == {Threshold - 1, Threshold, Threshold + 1}

DataUrl == <<"data.json">>

FileName(name) ==
    CASE name = "header" -> "_header.html"
      [] name = "personalInfo" -> "_personal-info.html"
      [] name = "summary" -> "_summary-content.html"
      [] name = "aboutMe" -> "_about-me.html"
      [] name = "skills" -> "_skills.html"
      [] name = "portfolio" -> "_portfolio.html"
      [] name = "autobioCh" -> "_autobiography-ch.html"
      [] name = "autobioEn" -> "_autobiography-en.html"
      [] OTHER -> "_experience.html"

\* the path main passes to fetchTemplate
Url(v, name) == IF v = "finally" THEN <<"./components/", FileName(name)>>
                ELSE <<FileName(name)>>

NoError == [kind |-> "none", at |-> <<>>]

\* ------------------------------------------- inputs of the resolver's check

\* the longest path, in segments, of a generated placeholder
MaxSegs == 3

SegAlphabet == {K("a"), K("n"), K("0"), K("1")}

SegSeqs == UNION {[1..k -> SegAlphabet] : k \in 1..MaxSegs}

RECURSIVE Dotted(_)
\* a path written with dots: a.0.n
Dotted(segs) == IF Len(segs) = 1 THEN segs[1]
                ELSE segs[1] \o <<".">> \o Dotted(Tail(segs))

RECURSIVE BracketedTail(_)
BracketedTail(segs) ==
    IF segs = <<>> THEN <<>>
    ELSE (IF IsIndex(segs[1]) THEN <<"[">> \o segs[1] \o <<"]">> ELSE <<".">> \o segs[1])
         \o BracketedTail(Tail(segs))

\* the same path with its indices after the first segment in brackets: a[0].n
Bracketed(segs) == segs[1] \o BracketedTail(Tail(segs))

PathTexts == {Dotted(q) : q \in SegSeqs} \cup {Bracketed(q) : q \in SegSeqs}
             \cup {<<" ">> \o Dotted(q) \o <<" ">> : q \in SegSeqs}
             \cup {<<>>, <<"a", ".", ".", "n">>, <<"[", "0", "]">>, <<"a", "[", "n", "]">>,
                   <<"a", ".", "length">>}

Placeholder(w) == <<"{", "{">> \o w \o <<"}", "}">>

Templates ==
    UNION {{ Placeholder(w),
             <<"x">> \o Placeholder(w) \o <<"y">>,
             Placeholder(w) \o <<"-">> \o Placeholder(K("a")),
             <<"{">> \o Placeholder(w) \o <<"}">>,
             <<"{", "{", "a", "\n", "}", "}">> \o Placeholder(w) } : w \in PathTexts}

Documents ==
    { Obj(K("a") :> Obj(K("a") :> Str(<<"v">>) @@ K("n") :> Null) @@ K("n") :> Null),
      Obj(K("a") :> Arr(<<Obj(K("a") :> Str(<<"w">>)), Null>>) @@ K("n") :> Num(0)),
      Obj(K("a") :> Str(<<"x", "y">>) @@ K("n") :> Obj(K("a") :> Num(17))),
      Obj(K("a") :> Obj(K("a") :> Obj(K("a") :> Str(<<"d">>) @@ K("n") :> Null))
          @@ K("n") :> Arr(<<Arr(<<Str(<<"z">>), Bool(FALSE)>>)>>)),
      Obj(K("a") :> Str(<<>>) @@ K("n") :> Bool(TRUE)),
      Obj(<<>>),
      Null }

\* ------------------------------------------------------------------ state

VARIABLES
    rTemplate, rData, rPc, rSubs, rOut,  \* one call of render and its result
    variant,      \* the revision of the script the page runs
    page,         \* what the page and its document lack (a set of Defects)
    pc,           \* where main is: idle, data, json, template, done
    outstanding,  \* the requests issued and not yet settled
    requested,    \* every request issued so far, in order
    dataResp,     \* the response to the request for data.json
    tmplResp,     \* the response fetchTemplate received last
    data,         \* the parsed data document
    nFetched,     \* how many template fetches have completed
    containers,   \* each container's innerHTML, or Absent
    written,      \* the containers whose innerHTML a renderer assigned
    display,      \* each overlay's style.display: "" until the script sets it
    onclick,      \* whether main's click handler is attached
    attached,     \* how many times it was attached
    innerWidth,   \* window.innerWidth
    error,        \* what main's catch received
    calls,        \* the functions main called after its fetches, in order
    loader        \* the loader element: absent, shown, hidden, none

rvars == <<rTemplate, rData, rPc, rSubs, rOut>>

mvars == <<variant, page, pc, outstanding, requested, dataResp, tmplResp, data, nFetched,
           containers, written, display, onclick, attached, innerWidth, error,
           calls, loader>>

vars == <<rvars, mvars>>

NotRun == <<"#not-run">>

NoResponse == [settled |-> FALSE, ok |-> FALSE, json |-> FALSE]

\* a response: its status is 2xx or not, its body parses as JSON or not
Responses == {[settled |-> TRUE, ok |-> o, json |-> j] : o \in BOOLEAN, j \in BOOLEAN}

NoTemplateResponse == [settled |-> FALSE, ok |-> FALSE, url |-> <<>>]

\* the responses a request for a template can get: status 2xx or not
TemplateResponses(u) == {[settled |-> TRUE, ok |-> o, url |-> u] : o \in BOOLEAN}

NoOverlays == [o \in {} |-> ""]

\* the page script is not running
MainOff == /\ variant = "index"
           /\ page = {}
           /\ pc = "off"
           /\ outstanding = {}
           /\ requested = <<>>
           /\ dataResp = NoResponse
           /\ tmplResp = NoTemplateResponse
           /\ data = Undefined
           /\ nFetched = 0
           /\ containers = [c \in {} |-> <<>>]
           /\ written = {}
           /\ display = NoOverlays
           /\ onclick = FALSE
           /\ attached = 0
           /\ innerWidth = Threshold
           /\ error = NoError
           /\ calls = <<>>
           /\ loader = "absent"

RenderOff == /\ rTemplate = <<>>
             /\ rData = Undefined
             /\ rPc = "off"
             /\ rSubs = <<>>
             /\ rOut = NotRun

\* ---------------------------------------------- the resolver on its own

RenderInit == /\ rTemplate \in Templates
              /\ rData \in Documents
              /\ rPc = "ready"
              /\ rSubs = <<>>
              /\ rOut = NotRun
              /\ MainOff

\* one call render(rTemplate, rData): rSubs keeps what the callback returned
\* for each placeholder, as text, in order
RenderCall == /\ rPc = "ready"
              /\ rOut' = Render(rTemplate, rData)
              /\ rSubs' = Replacements(rTemplate, rData)
              /\ rPc' = "done"
              /\ UNCHANGED <<rTemplate, rData, mvars>>

\* the page renders again from the same inputs
RenderAgain == /\ rPc = "done"
               /\ rPc' = "ready"
               /\ rSubs' = <<>>
               /\ rOut' = NotRun
               /\ UNCHANGED <<rTemplate, rData, mvars>>

RenderNext == RenderCall \/ RenderAgain

SpecRender == RenderInit /\ [][RenderNext]_vars

\* ------------------------------------------------------------- the page

Has(d) == d \notin page

Init == /\ RenderOff
        /\ variant \in Revisions
        /\ page \in DefectSetsUpTo(MaxDefects)
        /\ pc = "idle"
        /\ outstanding = {}
        /\ requested = <<>>
        /\ dataResp = NoResponse
        /\ tmplResp = NoTemplateResponse
        /\ data = Undefined
        /\ nFetched = 0
        /\ containers = [c \in ContainerNames(variant) |->
                            IF [kind |-> "no-container", at |-> <<c>>] \in page
                            THEN Absent ELSE <<>>]
        /\ written = {}
        /\ display = NoOverlays
        /\ onclick = FALSE
        /\ attached = 0
        /\ innerWidth \in Widths
        /\ error = NoError
        /\ calls = <<>>
        /\ loader = IF variant = "finally" /\ [kind |-> "no-loader", at |-> <<>>] \notin page
                    THEN "shown" ELSE "absent"

\* a main without the finally clause
FinallyMissing(v, l) == l

\* the finally clause of the finally revision: loader.classList.add('loader-hidden')
Finally(v, l) == IF v = "finally" /\ l = "shown" THEN "hidden" ELSE l

\* catch (error) { console.error(...) }: main ends
Catch(e) == /\ error' = e
            /\ pc' = "done"
            /\ outstanding' = {}
            /\ loader' = Finally(variant, loader)
            /\ UNCHANGED <<variant, page, requested, dataResp, data, nFetched, containers,
                           written, display, onclick, attached, innerWidth, calls>>

\* every template requested at once, as Promise.all would
ToIssueAll(v, n) ==
    IF n = 0 THEN {TemplateOrder(v)[i] : i \in 1..Len(TemplateOrder(v))} ELSE {}

\* the templates main requests once n template fetches have completed: each
\* `await fetchTemplate(...)` is evaluated after the one before it
ToIssue(v, n) == IF n < Len(TemplateOrder(v)) THEN {TemplateOrder(v)[n + 1]} ELSE {}

Urls(v, names) == {Url(v, name) : name \in names}

RECURSIVE InOrder(_, _)
\* the names of a set in the order of a sequence
InOrder(order, names) ==
    IF order = <<>> THEN <<>>
    ELSE (IF Head(order) \in names THEN <<Head(order)>> ELSE <<>>)
         \o InOrder(Tail(order), names)

RequestsFor(v, names) ==
    LET ordered == InOrder(TemplateOrder(v), names)
    IN  [i \in 1..Len(ordered) |-> Url(v, ordered[i])]

RECURSIVE RunRenderers(_, _, _, _)
\* step 4 of main: the renderers in order; a throw ends the run
RunRenderers(v, order, doc, state) ==
    Once(state, LAMBDA st :
        IF order = <<>> \/ st.fault THEN st
        ELSE LET name == Head(order)
             IN  Once(Renderer(name, v, st.containers[name], TemplateText(name), doc),
                      LAMBDA r :
                 RunRenderers(v, Tail(order), doc,
                     [containers |-> [st.containers EXCEPT ![name] = r.html],
                      written |-> IF r.wrote THEN st.written \cup {name} ELSE st.written,
                      display |-> IF r.wrote
                                  THEN LET fresh == OverlaysOf(name, r.html)
                                           kept == {o \in DOMAIN st.display : o[1] # name}
                                       IN  [o \in kept \cup fresh |->
                                               IF o \in fresh THEN "" ELSE st.display[o]]
                                  ELSE st.display,
                      calls |-> Append(st.calls, name),
                      fault |-> r.fault])))

\* function initializeEventListeners(): nothing without a main element
InitializeEventListeners(hasMain, st) ==
    IF ~hasMain THEN st
    ELSE [st EXCEPT !.onclick = TRUE, !.attached = st.attached + 1]

\* steps 3 to 5 of main, which run without an await in between: the
\* renderers, then initializeEventListeners; a throw goes to the catch
MainSync(doc) ==
    \E st \in {RunRenderers(variant, RenderOrder(variant), doc,
                             [containers |-> containers, written |-> written,
                              display |-> display, calls |-> calls, fault |-> FALSE])} :
    LET ls == InitializeEventListeners(Has([kind |-> "no-main", at |-> <<>>]),
                                       [onclick |-> onclick, attached |-> attached])
    IN  /\ containers' = st.containers
        /\ written' = st.written
        /\ display' = st.display
        /\ calls' = IF st.fault THEN st.calls
                    ELSE Append(st.calls, "initializeEventListeners")
        /\ onclick' = IF st.fault THEN onclick ELSE ls.onclick
        /\ attached' = IF st.fault THEN attached ELSE ls.attached
        /\ error' = IF st.fault
                    THEN [kind |-> "TypeError", at |-> <<st.calls[Len(st.calls)]>>]
                    ELSE error
        /\ pc' = "done"
        /\ loader' = Finally(variant, loader)

\* document.addEventListener('DOMContentLoaded', main): main starts and
\* requests data.json
DOMContentLoaded ==
    /\ pc = "idle"
    /\ pc' = "data"
    /\ outstanding' = {DataUrl}
    /\ requested' = <<DataUrl>>
    /\ UNCHANGED <<rvars, variant, page, dataResp, tmplResp, data, nFetched, containers, written,
                   display, onclick, attached, innerWidth, error, calls, loader>>

\* await fetch('data.json') rejects: a network error
DataFetchRejects ==
    /\ pc = "data"
    /\ Catch([kind |-> "network", at |-> DataUrl])
    /\ UNCHANGED <<rvars, tmplResp>>

\* await fetch('data.json') resolves, whatever the status: main goes on to
\* dataResponse.json()
DataFetchResponds ==
    /\ pc = "data"
    /\ \E r \in Responses : dataResp' = r
    /\ pc' = "json"
    /\ UNCHANGED <<rvars, tmplResp, variant, page, outstanding, requested, data, nFetched,
                   containers, written, display, onclick, attached, innerWidth, error,
                   calls, loader>>

\* await dataResponse.json() rejects: the body is not JSON
JsonRejects ==
    /\ pc = "json"
    /\ ~dataResp.json
    /\ Catch([kind |-> "SyntaxError", at |-> <<>>])
    /\ UNCHANGED <<rvars, tmplResp>>

\* await dataResponse.json() resolves; main requests its first template
JsonThenFetch ==
    /\ pc = "json"
    /\ dataResp.json
    /\ TemplateOrder(variant) # <<>>
    /\ data' = ServedDocument(variant, page)
    /\ outstanding' = (outstanding \ {DataUrl}) \cup Urls(variant, ToIssue(variant, 0))
    /\ requested' = requested \o RequestsFor(variant, ToIssue(variant, 0))
    /\ pc' = "template"
    /\ UNCHANGED <<rvars, variant, page, dataResp, tmplResp, nFetched, containers, written,
                   display, onclick, attached, innerWidth, error, calls, loader>>

\* await dataResponse.json() resolves in the inline-template revision: the
\* rest of main runs at once
JsonThenRender ==
    /\ pc = "json"
    /\ dataResp.json
    /\ TemplateOrder(variant) = <<>>
    /\ data' = ServedDocument(variant, page)
    /\ outstanding' = outstanding \ {DataUrl}
    /\ MainSync(data')
    /\ UNCHANGED <<rvars, variant, page, requested, dataResp, tmplResp, nFetched, innerWidth>>

\* fetch rejects inside fetchTemplate: a network error
TemplateFetchRejects ==
    /\ pc = "template"
    /\ \E u \in outstanding : Catch([kind |-> "network", at |-> u])
    /\ UNCHANGED <<rvars, tmplResp>>

\* a fetchTemplate without the status check
FetchTemplateNeverThrows(response) == FALSE

\* if (!response.ok) throw new Error(...)
FetchTemplateThrows(response) == ~response.ok

\* a template's response arrives and fetchTemplate throws
\* `Failed to fetch ${fileName}: ${response.statusText}`
TemplateNotOk ==
    /\ pc = "template"
    /\ \E u \in outstanding : \E r \in TemplateResponses(u) :
          /\ FetchTemplateThrows(r)
          /\ tmplResp' = r
          /\ Catch([kind |-> "fetch-failed", at |-> u])
    /\ UNCHANGED rvars

\* a template arrives (response.ok, response.text()) and main requests the next
TemplateThenFetch ==
    /\ pc = "template"
    /\ nFetched + 1 < Len(TemplateOrder(variant))
    /\ \E u \in outstanding : \E r \in TemplateResponses(u) :
          /\ ~FetchTemplateThrows(r)
          /\ tmplResp' = r
          /\ outstanding' = (outstanding \ {u})
                              \cup Urls(variant, ToIssue(variant, nFetched + 1))
          /\ requested' = requested \o RequestsFor(variant, ToIssue(variant, nFetched + 1))
    /\ nFetched' = nFetched + 1
    /\ UNCHANGED <<rvars, variant, page, pc, dataResp, data, containers, written, display,
                   onclick, attached, innerWidth, error, calls, loader>>

\* the last template arrives: the rest of main runs at once
TemplateThenRender ==
    /\ pc = "template"
    /\ nFetched + 1 = Len(TemplateOrder(variant))
    /\ \E u \in outstanding : \E r \in TemplateResponses(u) :
          /\ ~FetchTemplateThrows(r)
          /\ tmplResp' = r
          /\ outstanding' = outstanding \ {u}
    /\ nFetched' = nFetched + 1
    /\ MainSync(data)
    /\ UNCHANGED <<rvars, variant, page, requested, dataResp, data, innerWidth>>

\* a click on `target` reaches the main element's handler, when one is attached
ClickOn(target) ==
    /\ pc # "off"
    /\ display' = IF onclick THEN OnClick(target, innerWidth, display) ELSE display
    /\ UNCHANGED <<rvars, variant, page, pc, outstanding, requested, dataResp, tmplResp, data,
                   nFetched, containers, written, onclick, attached, innerWidth, error,
                   calls, loader>>

Click == \E target \in Targets(display) : ClickOn(target)

\* the window is resized
Resize ==
    /\ pc # "off"
    /\ \E w \in Widths \ {innerWidth} : innerWidth' = w
    /\ UNCHANGED <<rvars, variant, page, pc, outstanding, requested, dataResp, tmplResp, data,
                   nFetched, containers, written, display, onclick, attached, error,
                   calls, loader>>

\* setTimeout(() => loader.style.display = 'none', 500)
LoaderTimer ==
    /\ loader = "hidden"
    /\ loader' = "none"
    /\ UNCHANGED <<rvars, variant, page, pc, outstanding, requested, dataResp, tmplResp, data,
                   nFetched, containers, written, display, onclick, attached, innerWidth,
                   error, calls>>

Next == \/ DOMContentLoaded
        \/ DataFetchRejects
        \/ DataFetchResponds
        \/ JsonRejects
        \/ JsonThenFetch
        \/ JsonThenRender
        \/ TemplateFetchRejects
        \/ TemplateNotOk
        \/ TemplateThenFetch
        \/ TemplateThenRender
        \/ Click
        \/ Resize
        \/ LoaderTimer

Spec == Init /\ [][Next]_vars

\* --------------------------------------------------- the resolver's claims

\* the keys a placeholder's path names, in order
PathKeys(path) == Split(CleanPath(path), ".")

RECURSIVE Present(_, _)
\* every key of the path is present, each read from a value that can be read
Present(keys, x) ==
    \/ keys = <<>>
    \/ /\ ~Nullish(x)
       /\ GetProp(x, Head(keys)).t # "undefined"
       /\ Present(Tail(keys), GetProp(x, Head(keys)))

RECURSIVE Leaf(_, _)
\* the value at the end of a path whose keys are all present
Leaf(keys, x) == IF keys = <<>> THEN x ELSE Leaf(Tail(keys), GetProp(x, Head(keys)))

RenderMatches == Matches(rTemplate, 1)

\* C1: a placeholder whose path fails to resolve at some depth (a missing key,
\* an index out of range, a null or otherwise unreadable value on the way) is
\* replaced by the empty text; render does not throw for it and writes neither
\* "undefined" nor "null" in its place.
C1_UnresolvedIsEmpty ==
    rPc = "done" =>
        /\ rOut # Raised
        /\ \A k \in 1..Len(RenderMatches) :
              ~Present(PathKeys(RenderMatches[k].path), rData) =>
                  /\ rSubs[k] = <<>>
                  /\ rSubs[k] \notin {<<"undefined">>, <<"null">>}

\* a rendered template with a placeholder that fails below a null value
C1_Witness ==
    /\ rPc = "done"
    /\ rOut # Raised
    /\ \E k \in 1..Len(RenderMatches) :
          LET keys == PathKeys(RenderMatches[k].path)
          IN  /\ Len(keys) = 2
              /\ rData.t = "object"
              /\ GetProp(rData, keys[1]).t = "null"
              /\ ~Present(keys, rData)
              /\ rSubs[k] = <<>>

\* C2: a placeholder whose path resolves completely, every key present, to a
\* leaf that is null is rendered as the empty text; "null" is not written.
C2_NullLeafIsEmpty ==
    rPc = "done" =>
        \A k \in 1..Len(RenderMatches) :
            LET keys == PathKeys(RenderMatches[k].path)
            IN  (Present(keys, rData) /\ Leaf(keys, rData).t = "null") =>
                    /\ rSubs[k] = <<>>
                    /\ ~Contains(rOut, <<"null">>)

\* ------------------------------------------------------ the page's claims

\* an overlay is Visible when the script set its display to block; until the
\* script sets it, the display is the stylesheet's
Visible(d, o) == d[o] = "block"

NoneVisible(d) == \A o \in DOMAIN d : ~Visible(d, o)

Element(o, part) == [ov |-> o, part |-> part]

\* the parts of an overlay's inner content pane
PaneParts == {"more-base", "scroll", "skill-img-big"}

Names(order) == {order[i] : i \in 1..Len(order)}

Pos(order, name) == CHOOSE i \in 1..Len(order) : order[i] = name

IsPrefix(a, b) == Len(a) <= Len(b) /\ SubStr(b, 1, Len(a)) = a

Keys(path) == [i \in 1..Len(path) |-> K(path[i])]

\* main got as far as its renderers and has ended
Rendered == pc = "done" /\ calls # <<>>

\* the renderer calls main made, without the call that attaches the handler
RendererCalls == IF calls # <<>> /\ calls[Len(calls)] = "initializeEventListeners"
                 THEN SubStr(calls, 1, Len(calls) - 1) ELSE calls

\* every container is as the page was loaded
Untouched == /\ written = {}
             /\ \A c \in DOMAIN containers : containers[c] \in {Absent, <<>>}

\* C3: an overlay starts Hidden; with the handler attached, a click on a
\* zoomable image below the width 1024 leaves every overlay Hidden, the same
\* click at 1024 or more makes that image's overlay Visible, and a click on
\* that overlay's close control right after makes it Hidden again.
C3_OverlayOpensAtThreshold ==
    /\ ~onclick => \A o \in DOMAIN display : display[o] = ""
    /\ onclick =>
         \A o \in DOMAIN display :
            LET opened == OnClick(Element(o, "skill-img"), innerWidth, display)
            IN  /\ (innerWidth < 1024 /\ NoneVisible(display)) => NoneVisible(opened)
                /\ innerWidth >= 1024 =>
                      /\ Visible(opened, o)
                      /\ \A q \in DOMAIN display \ {o} : opened[q] = display[q]
                      /\ ~Visible(OnClick(Element(o, "close"), innerWidth, opened), o)

\* at the width 1024 one overlay is open while another was opened and closed
C3_Witness ==
    /\ onclick
    /\ innerWidth = 1024
    /\ \E o, q \in DOMAIN display : display[o] = "block" /\ display[q] = "none"

\* C4: whenever an overlay is Visible, at any width and after any clicks and
\* resizes, a click on its close control or on its background (more-inf)
\* makes it Hidden, and a click inside its inner content pane leaves it Visible.
C4_CloseHidesAtAnyWidth ==
    onclick =>
       \A o \in DOMAIN display :
          Visible(display, o) =>
             /\ ~Visible(OnClick(Element(o, "close"), innerWidth, display), o)
             /\ ~Visible(OnClick(Element(o, "more-inf"), innerWidth, display), o)
             /\ \A part \in PaneParts :
                   Visible(OnClick(Element(o, part), innerWidth, display), o)

\* the renderer that maps over a list
ListOwner(p) ==
    CASE p = <<"nav", "social">> -> "header"
      [] p = <<"personal_info", "connections">> -> "personalInfo"
      [] p = <<"skills_section", "skills">> -> "skills"
      [] p = <<"skills_section", "certificates", "items">> -> "skills"
      [] p = <<"portfolio_section", "projects">> -> "portfolio"
      [] p = <<"autobiography_section", "paragraphs_ch">> -> "autobioCh"
      [] p = <<"autobiography_section", "paragraphs_en">> -> "autobioEn"
      [] OTHER -> "experience"

\* the section of a list is in the data document, the list is not
LacksList(p) == /\ data.t = "object"
                /\ Present(<<K(p[1])>>, data)
                /\ ~Present(Keys(p), data)

\* a renderer threw, main's catch received it, the handler was not attached
\* and no section after the throwing renderer was rendered
FaultEndedMain ==
    /\ error.kind = "TypeError"
    /\ ~onclick
    /\ attached = 0
    /\ NoneVisible(display)
    /\ calls[Len(calls)] = error.at[1]
    /\ \A name \in Names(RenderOrder(variant)) :
          Pos(RenderOrder(variant), name) > Pos(RenderOrder(variant), error.at[1])
             => name \notin written

ListIsRead(p) ==
    /\ ListOwner(p) \in Names(RenderOrder(variant))
    /\ variant \in {"index", "finally"} => containers[ListOwner(p)] # Absent

Skips(name) ==
    \/ containers[name] = Absent
    \/ data.t = "object" /\ SectionKey(name) \notin DOMAIN data.v

\* C6: in the revisions with entry guards, a renderer whose container is
\* absent or whose section key is missing from the data document returns
\* without raising and without assigning a container; main calls the other
\* renderers, which render their sections, and attaches the handler (to the
\* main element, when the page has one).
C6_GuardedSkip ==
    (Rendered /\ variant \in {"index", "finally"}) =>
       \A name \in Names(RenderOrder(variant)) :
          Skips(name) =>
             /\ name \notin written
             /\ containers[name] \in {Absent, <<>>}
             /\ error.at # <<name>>
             /\ error = NoError =>
                   /\ calls = RenderOrder(variant) \o <<"initializeEventListeners">>
                   /\ \A other \in Names(RenderOrder(variant)) :
                         ~Skips(other) => other \in written
                   /\ Has([kind |-> "no-main", at |-> <<>>]) => onclick /\ attached = 1

\* the skills container is missing and main still rendered the portfolio and
\* attached the handler
C6_Witness ==
    /\ Rendered
    /\ variant = "index"
    /\ containers["skills"] = Absent
    /\ "skills" \notin written
    /\ "portfolio" \in written
    /\ onclick

\* the order the renderers are said to have
FixedOrder == <<"header", "personalInfo", "summary", "aboutMe", "experience", "skills",
                "portfolio", "autobioCh", "autobioEn">>

\* the fixed order, of the sections a revision renders
ClaimedOrder(v) == InOrder(FixedOrder, Names(RenderOrder(v)))

\* what the inline-template revision's main does (part_000, lines 292-298)
InlineOrder == <<"header", "personalInfo", "skills", "portfolio", "autobioCh",
                 "autobioEn", "experience">>

\* the renderers are called in `order`, the handler is attached after the last
\* of them, at most once, and once when main ends without a fault on a page
\* with a main element; until then no click changes an overlay
OrderedThenAttached(order) ==
    /\ IsPrefix(RendererCalls, order)
    /\ attached <= 1
    /\ onclick => /\ attached = 1
                  /\ calls = order \o <<"initializeEventListeners">>
    /\ ~onclick => \A o \in DOMAIN display : display[o] = ""
    /\ (Rendered /\ error = NoError /\ Has([kind |-> "no-main", at |-> <<>>]))
          => onclick /\ attached = 1

\* C7: main renders the sections in the fixed order header, personal info,
\* summary, about-me (when the revision has it), experience, skills,
\* portfolio, autobiography, and attaches the handler exactly once, after the
\* last renderer returned; no click changes an overlay before that.
C7_FixedOrder == OrderedThenAttached(ClaimedOrder(variant))

\* C7, amended: that order is the order of the revisions that fetch their
\* templates; the inline-template revision renders header, personal info,
\* skills, portfolio, autobiography (zh, en), experience.
C7_OrderByRevision ==
    OrderedThenAttached(IF variant = "inline" THEN InlineOrder ELSE ClaimedOrder(variant))

\* the inline-template revision rendered every section and attached the handler
C7_Witness ==
    /\ Rendered
    /\ variant = "inline"
    /\ RendererCalls = InlineOrder
    /\ attached = 1
    /\ onclick

\* the requests main has made when k templates were requested
RequestsUpTo(v, k) ==
    <<DataUrl>> \o [i \in 1..k |-> Url(v, TemplateOrder(v)[i])]

\* C8: in the revisions that fetch their templates, no template is requested
\* before data.json was fetched and parsed, a template is requested only when
\* the one before it has arrived (at most one request is outstanding), and no
\* renderer runs before every template has arrived.
C8_FetchesInSequence ==
    variant \in {"index", "finally"} =>
       /\ Cardinality(outstanding) <= 1
       /\ Len(requested) > 1 =>
             /\ dataResp.settled
             /\ pc \in {"template", "done"}
             /\ DataUrl \notin outstanding
             /\ data.t # "undefined"
       /\ Len(requested) <= Len(TemplateOrder(variant)) + 1
       /\ Len(requested) >= 1 => requested = RequestsUpTo(variant, Len(requested) - 1)
       /\ Len(requested) <= nFetched + 2
       /\ (calls # <<>> \/ written # {}) => nFetched = Len(TemplateOrder(variant))

\* the fourth template is on its way, alone
C8_Witness ==
    /\ variant = "index"
    /\ pc = "template"
    /\ nFetched = 3
    /\ outstanding = {Url("index", "skills")}
    /\ Len(requested) = 5

\* C9: when a template's response has a non-success status, fetchTemplate
\* throws an error that names the template's path, main's catch receives it,
\* no further template is requested, no container is modified and the handler
\* is not attached.
C9_TemplateNotOkAborts ==
    (tmplResp.settled /\ ~tmplResp.ok) =>
       /\ pc = "done"
       /\ error = [kind |-> "fetch-failed", at |-> tmplResp.url]
       /\ requested[Len(requested)] = tmplResp.url
       /\ Len(requested) = nFetched + 2
       /\ outstanding = {}
       /\ Untouched
       /\ calls = <<>>
       /\ ~onclick
       /\ attached = 0

\* the third template's response was not OK
C9_Witness ==
    /\ tmplResp.settled
    /\ ~tmplResp.ok
    /\ nFetched = 2
    /\ error = [kind |-> "fetch-failed", at |-> Url(variant, TemplateOrder(variant)[3])]
    /\ pc = "done"

\* C10: a response to the request for data.json with a status outside 2xx is
\* a fetch failure as for a template: an error naming data.json reaches
\* main's catch and no section is rendered from the response's body.
C10_DataNotOkIsFailure ==
    (dataResp.settled /\ ~dataResp.ok /\ pc # "json") =>
       /\ pc = "done"
       /\ error = [kind |-> "fetch-failed", at |-> DataUrl]
       /\ Untouched
       /\ calls = <<>>

\* ------------------------------------------------------- the loader's claim

\* a step of main: the browser raises DOMContentLoaded, or a fetch settles and
\* main's continuation runs
MainStep ==
    \/ DOMContentLoaded
    \/ DataFetchRejects \/ DataFetchResponds
    \/ JsonRejects \/ JsonThenFetch \/ JsonThenRender
    \/ TemplateFetchRejects \/ TemplateNotOk \/ TemplateThenFetch \/ TemplateThenRender

\* every fetch settles: main is not left waiting forever
SpecSettling == Spec /\ WF_vars(MainStep)

\* the page of the revision with the finally clause has a loader element
HasLoader == variant = "finally" /\ Has([kind |-> "no-loader", at |-> <<>>])

\* C11: in the revision with the finally clause, on a page with a loader
\* element, the loader is marked hidden whenever main has ended, whether it
\* succeeded, a fetch failed or a renderer faulted; it is shown only while
\* main waits, and when every fetch settles it is eventually hidden.
C11_LoaderEventuallyHidden ==
    /\ [](HasLoader => (loader = "shown" <=> pc # "done"))
    /\ (HasLoader /\ loader = "shown") ~> (loader \in {"hidden", "none"})

\* the loader was hidden after a renderer faulted
C11_Witness ==
    /\ HasLoader
    /\ pc = "done"
    /\ error.kind = "TypeError"
    /\ loader = "hidden"


\* ------------------------------------------------- the resolver's frame

\* a placeholder's path as the specification writes it: identifier segments
\* separated by dots, with optional bracketed non-negative integer indices,
\* possibly between blanks
WellFormedPath(w) ==
    Once(Split(BracketsToDots(Trim(w)), "."), LAMBDA keys :
        \A k \in 1..Len(keys) :
            /\ keys[k] # <<>>
            /\ \A i \in 1..Len(keys[k]) : keys[k][i] \in Identifiers)

RECURSIVE TokensOf(_, _)
\* the placeholder tokens {{path}} of a template from position i on, left to
\* right: a pair of opening braces, a well-formed path, a pair of closing braces
TokensOf(s, i) ==
    IF i + 3 > Len(s) THEN <<>>
    ELSE Once(<<i, FindClose(s, i + 2, "}")>>, LAMBDA a :
             IF s[a[1]] = "{" /\ s[a[1] + 1] = "{" /\ a[2] # 0
                /\ WellFormedPath(SubStr(s, a[1] + 2, a[2] - 1))
             THEN <<[from |-> a[1], to |-> a[2] + 1,
                     path |-> SubStr(s, a[1] + 2, a[2] - 1)]>>
                  \o TokensOf(s, a[2] + 2)
             ELSE TokensOf(s, a[1] + 1))

\* the template with each placeholder token replaced in place by the text of
\* its resolved value, everything else kept
TokensReplaced(template, d) ==
    Once(TokensOf(template, 1), LAMBDA ts :
        Splice(template, ts,
               <<>> \o [k \in 1..Len(ts) |-> Replacement(Resolve(ts[k].path, d))], 1))

\* C12: render(T, D) changes T only at its placeholder tokens: the output is T
\* with each {{path}} token replaced in place by its resolved value, verbatim,
\* and all the text outside the tokens unchanged and in the same order.
C12_OnlyTokensChange ==
    rPc = "done" => rOut = TokensReplaced(rTemplate, rData)


\* ------------------------------------------- bracketed and dotted indices

\* C13: for every data document and every path, the placeholder written with
\* bracketed non-negative integer indices (a[0].a) is rendered exactly as the
\* placeholder written with each index as a dotted segment (a.0.a), whether
\* the path resolves or not.
C13_BracketedAsDotted ==
    rPc = "done" =>
        \A q \in SegSeqs :
            rTemplate = Placeholder(Bracketed(q)) =>
                rOut = Render(Placeholder(Dotted(q)), rData)

\* a[0].a rendered from a document whose a is an array of objects: the path
\* resolves through the index
C13_Witness ==
    /\ rPc = "done"
    /\ rTemplate = Placeholder(<<"a", "[", "0", "]", ".", "a">>)
    /\ rOut = <<"w">>
    /\ rOut = Render(Placeholder(<<"a", ".", "0", ".", "a">>), rData)


\* ------------------------------------------- the renderers on their own

\* the most renderer invocations in a row
MaxCalls == 2

RECURSIVE SetAt(_, _, _)
\* the document with the value at a path (keys and 1-based positions) replaced
SetAt(x, path, val) ==
    IF path = <<>> THEN val
    ELSE IF x.t = "array"
         THEN Arr([x.v EXCEPT ![path[1]] = SetAt(@, Tail(path), val)])
         ELSE Obj([x.v EXCEPT ![K(path[1])] = SetAt(@, Tail(path), val)])

\* the texts of the data document that the renderers splice into markup: an
\* item of the first skill, the first certificate's description, the first
\* paragraph, the first job's first description entry (the whole description
\* in the inline-template revision), and a text a placeholder resolves to
EditPath(target) ==
    CASE target = "skill-item" -> <<"skills_section", "skills", 1, "items", 1>>
      [] target = "certificate" -> <<"skills_section", "certificates", "items", 1,
                                     "description">>
      [] target = "paragraph" -> <<"autobiography_section", "paragraphs_ch", 1>>
      [] target = "job-detail" -> <<"experience_section", "jobs", 1, "description", 1>>
      [] OTHER -> <<"personal_info", "title">>

EditTargets == {"skill-item", "certificate", "paragraph", "job-detail", "title"}

\* an empty marker element as a template writes it, which a later replace of
\* the same renderer looks for
MarkerText(target) ==
    CASE target = "skill-item" -> <<"<div class='skills' ", "id='certificates-list'>", "</div>">>
      [] target = "certificate" -> <<"<div class='skills' ", "id='skills-list'>", "</div>">>
      [] target = "paragraph" -> <<"<div ", "id='autobio-ch-paragraphs'>", "</div>">>
      [] target = "job-detail" -> <<"<div class='experience' ", "id='experience-list'>",
                                    "</div>">>
      [] OTHER -> <<"<div ", "class='connection-group'>", "</div>">>

\* what a text of the document may be: a replacement pattern of
\* String.prototype.replace, or markup
EditText(target, which) ==
    CASE which = "dollar-amp" -> <<"a", "$", "&", "b">>
      [] which = "dollar-quote" -> <<"a", "$", "'", "b">>
      [] which = "dollar-grave" -> <<"a", "$", Grave, "b">>
      [] which = "dollar-dollar" -> <<"a", "$", "$", "b">>
      [] OTHER -> MarkerText(target)

EditTexts == {"dollar-amp", "dollar-quote", "dollar-grave", "dollar-dollar",
              "marker"}

Edits == {[kind |-> "edit", at |-> <<target, which>>] :
              target \in EditTargets, which \in EditTexts}

\* the document data.json holds, with the edited text in it
EditedDocument(v, ds) ==
    IF \E d \in ds : d.kind = "edit"
    THEN LET d == CHOOSE d \in ds : d.kind = "edit"
             text == Str(EditText(d.at[1], d.at[2]))
         IN  IF d.at[1] = "job-detail" /\ v = "inline"
             THEN SetAt(BaseDocument(v),
                        <<"experience_section", "jobs", 1, "description">>, text)
             ELSE SetAt(BaseDocument(v), EditPath(d.at[1]), text)
    ELSE ServedDocument(v, ds)

\* a section without the texts its renderer formats: the summary's content,
\* the paragraphs of the about-me section
TextDrops == {[kind |-> "drop", at |-> p] :
                 p \in {<<"summary_section", "content">>,
                        <<"about_me_section", "paragraphs">>}}

\* the pages whose renderers are called: one defect or one edited text at most
SectionPages == {{}} \cup {{d} : d \in Defects \cup TextDrops \cup Edits}

\* data.json is parsed and the templates are there: the renderers can be called
SectionsInit ==
    /\ RenderOff
    /\ variant \in Revisions
    /\ page \in SectionPages
    /\ pc = "sections"
    /\ outstanding = {}
    /\ requested = <<>>
    /\ dataResp = NoResponse
    /\ tmplResp = NoTemplateResponse
    /\ data = EditedDocument(variant, page)
    /\ nFetched = 0
    /\ containers = [c \in ContainerNames(variant) |->
                        IF [kind |-> "no-container", at |-> <<c>>] \in page
                        THEN Absent ELSE <<>>]
    /\ written = {}
    /\ display = NoOverlays
    /\ onclick = FALSE
    /\ attached = 0
    /\ innerWidth = Threshold
    /\ error = NoError
    /\ calls = <<>>
    /\ loader = "absent"

\* one call of a section's renderer with its container, its template and the
\* data document; an exception goes to the caller
CallRenderer(name) ==
    /\ pc = "sections"
    /\ Len(calls) < MaxCalls
    /\ \E st \in {RunRenderers(variant, <<name>>, data,
                               [containers |-> containers, written |-> written,
                                display |-> display, calls |-> calls, fault |-> FALSE])} :
          /\ containers' = st.containers
          /\ written' = st.written
          /\ display' = st.display
          /\ calls' = st.calls
          /\ error' = IF st.fault THEN [kind |-> "TypeError", at |-> <<name>>] ELSE error
    /\ UNCHANGED <<rvars, variant, page, pc, outstanding, requested, dataResp, tmplResp,
                   data, nFetched, onclick, attached, innerWidth, loader>>

\* the renderers of the revision, in any order, any of them again
SectionsNext == \E name \in Names(RenderOrder(variant)) : CallRenderer(name)

SpecSections == SectionsInit /\ [][SectionsNext]_vars


\* ------------------------------------------------ one block per element

RECURSIVE OutlineFrom(_, _, _)
\* the glyphs of `openers` in a text from position i on, each with the glyph
\* that follows it, in the order of the text
OutlineFrom(html, openers, i) ==
    IF i >= Len(html) THEN <<>>
    ELSE IF html[i] \in openers
         THEN <<html[i], html[i + 1]>> \o OutlineFrom(html, openers, i + 1)
         ELSE OutlineFrom(html, openers, i + 1)

Outline(html, openers) == OutlineFrom(html, openers, 1)

\* the glyph a block opens with and the first glyph of the text it shows, for
\* every element of a list, in the list's order; `inner` gives what an
\* element's nested list adds after it
OutlineOf(list, opener, key, Inner(_)) ==
    Concat(<<>> \o [i \in 1..Len(list.v) |->
                       <<opener, (IF key = <<>> THEN list.v[i] ELSE GetProp(list.v[i], key)).v[1]>>
                       \o Inner(list.v[i])])

NoInner(x) == <<>>

\* the glyphs that open the blocks and the list items generated from a list
Openers(list) ==
    CASE list = "header" -> {"<a class='social-media-link' href='"}
      [] list = "personalInfo" -> {"<div class='connection'><i class='"}
      [] list = "skills" -> {"<h3 class='skill-name'>", "<li>"}
      [] list = "certificates" -> {"<p class='skill-description'>"}
      [] list = "portfolio" -> {"<h3 class='skill-name'>", "<img class='portfolio-img' src='"}
      [] list = "autobioCh" -> {"<p class='description'>"}
      [] list = "autobioEn" -> {"<p class='description-en'>"}
      [] OTHER -> {"<h3 class='job-title'>", "<li class='experience-detail'>",
                   "<p class='description'>"}

At(x, path) == ReduceStrict(Keys(path), x)

\* the outline a section's container is to show for a data document: one
\* block per element in input order, one list item per entry of a nested list
ExpectedOutline(name, v, d) ==
    CASE name = "header" ->
            OutlineOf(At(d, <<"nav", "social">>), "<a class='social-media-link' href='",
                      K("href"), NoInner)
      [] name = "personalInfo" ->
            OutlineOf(At(d, <<"personal_info", "connections">>),
                      "<div class='connection'><i class='", K("icon"), NoInner)
      [] name = "skills" ->
            OutlineOf(At(d, <<"skills_section", "skills">>), "<h3 class='skill-name'>",
                      K("name"),
                      LAMBDA skill : OutlineOf(GetProp(skill, K("items")), "<li>", <<>>,
                                               NoInner))
      [] name = "certificates" ->
            OutlineOf(At(d, <<"skills_section", "certificates", "items">>),
                      "<p class='skill-description'>", K("description"), NoInner)
      [] name = "portfolio" ->
            OutlineOf(At(d, <<"portfolio_section", "projects">>), "<h3 class='skill-name'>",
                      K("title"),
                      LAMBDA project :
                          IF v = "finally"
                          THEN Concat(<<>> \o [i \in 1..Len(GetProp(project, K("images")).v) |->
                                          <<"<img class='portfolio-img' src='", "./img/">>])
                          ELSE OutlineOf(GetProp(project, K("images")),
                                         "<img class='portfolio-img' src='", K("src"),
                                         NoInner))
      [] name = "autobioCh" ->
            OutlineOf(At(d, <<"autobiography_section", "paragraphs_ch">>),
                      "<p class='description'>", <<>>, NoInner)
      [] name = "autobioEn" ->
            OutlineOf(At(d, <<"autobiography_section", "paragraphs_en">>),
                      "<p class='description-en'>", <<>>, NoInner)
      [] OTHER ->
            OutlineOf(At(d, <<"experience_section", "jobs">>), "<h3 class='job-title'>",
                      K("title"),
                      LAMBDA job :
                          IF GetProp(job, K("description")).t \notin {"string", "array"}
                          THEN <<>>
                          ELSE IF v = "inline"
                          THEN LET lines == Split(GetProp(job, K("description")).v, "\n")
                               IN  Concat(<<>> \o [i \in 1..Len(lines) |->
                                              <<"<p class='description'>", Trim(lines[i])[1]>>])
                          ELSE OutlineOf(GetProp(job, K("description")),
                                         "<li class='experience-detail'>", <<>>, NoInner))

\* the lists the renderers generate a block per element from, by the name of
\* the section; the skills section shows two
ListsShown == {"header", "personalInfo", "skills", "certificates", "portfolio",
               "autobioCh", "autobioEn", "experience"}

ShownIn(list) == IF list = "certificates" THEN "skills" ELSE list

\* C14: every section renderer emits exactly one generated block per element
\* of its input sequence, in input order, and each nested list (a skill's
\* items, a job's description entries, a project's images) yields one list
\* item per entry in input order: two skills with 1 and 2 items give two
\* skill blocks, the second with two list items.
C14_OneBlockPerElement ==
    \A list \in ListsShown :
        ShownIn(list) \in written =>
            Outline(containers[ShownIn(list)], Openers(list))
                = ExpectedOutline(list, variant, data)


\* ------------------------------------- rendering depends on its inputs only

\* a container as the page is loaded: empty, or no such element
Unrendered(name) ==
    IF [kind |-> "no-container", at |-> <<name>>] \in page THEN Absent ELSE <<>>

\* what one invocation of a section's renderer leaves in its container
SingleInvocation(name) ==
    Renderer(name, variant, Unrendered(name), TemplateText(name), data).html

\* C15: rendering depends on (template, data) alone: the renderers do not
\* change the data document, share no state, and each writes its own container
\* only, so after any sequence of renderer invocations, in any order and with
\* any repetitions, each container holds exactly what a single invocation of
\* its renderer produces, and a container whose renderer was not invoked is as
\* the page was loaded.
C15_RenderingIsFunctionOfInputs ==
    /\ data = EditedDocument(variant, page)
    /\ \A name \in DOMAIN containers :
          containers[name] = IF name \in Names(calls) THEN SingleInvocation(name)
                             ELSE Unrendered(name)

\* a renderer invoked twice in a row, after which its container holds markup
C15_Witness ==
    /\ Len(calls) = 2
    /\ calls[1] = "skills"
    /\ calls[2] = "skills"
    /\ "skills" \in written
    /\ containers["skills"] = SingleInvocation("skills")


\* ------------------------------------------ markup at the designated marker

\* a template fragment up to and with its marker, and after it
UpTo(template, marker) == SubStr(template, 1, IndexOf(template, marker) + Len(marker) - 1)

After(template, marker) ==
    SubStr(template, IndexOf(template, marker) + Len(marker), Len(template))

\* the section's output with the generated markup right after the template's
\* marker, and the resolved template around it
AtMarkers(name, v, d) ==
    IF name = "personalInfo"
    THEN LET T == TemplateText("personalInfo")
             marker == <<"class='connection-group'>">>
         IN  RenderOf(v, UpTo(T, marker), d)
             \o MapJoin(At(d, <<"personal_info", "connections">>), Connection)
             \o RenderOf(v, After(T, marker), d)
    ELSE LET T == TemplateText("skills")
             first == <<"id='skills-list'>">>
             second == <<"id='certificates-list'>">>
         IN  RenderOf(v, UpTo(T, first), d)
             \o MapJoin(At(d, <<"skills_section", "skills">>), LAMBDA x : Skill(v, x))
             \o RenderOf(v, UpTo(After(T, first), second), d)
             \o MapJoin(At(d, <<"skills_section", "certificates", "items">>),
                        LAMBDA x : Certificate(v, x))
             \o RenderOf(v, After(After(T, first), second), d)

\* C16: for every data document, a renderer's generated markup ends up inside
\* the marker element its template designates, inserted exactly once, with the
\* rest of the resolved template unchanged: no value of the data document, be
\* it a resolved placeholder value or an item text spliced by an earlier step
\* of the same renderer, redirects where the markup is inserted.
C16_MarkupAtDesignatedMarker ==
    \A name \in {"personalInfo", "skills"} \cap written :
        containers[name] = AtMarkers(name, variant, data)


\* --------------------------------------- the two resolvers side by side

\* a path of words separated by dots, with no white space in it
WordPath(w) == \A i \in 1..Len(w) : w[i] \in PathGlyphs

\* C17: the resolver of index.js subsumes the resolver of the inline-template
\* revision: for a template whose placeholders are all dot-separated word
\* paths without white space, and data in which each of these paths resolves
\* to a defined value, both produce exactly the same output.
C17_PermissiveSubsumesStrict ==
    (/\ rPc = "done"
     /\ \A k \in 1..Len(RenderMatches) :
           /\ WordPath(RenderMatches[k].path)
           /\ Present(PathKeys(RenderMatches[k].path), rData))
        => rOut = RenderStrict(rTemplate, rData)


\* ------------------------------------------------- all or nothing

\* the resolved template of a section, nothing generated in it
ResolvedOnly(name) == RenderOf(variant, TemplateText(name), data)

\* C18: rendering is atomic per container: a renderer that faults while it
\* generates its items leaves its own container unmodified, so every container
\* is either untouched or holds the complete output of its section, never the
\* resolved template without its generated items.
C18_AtomicPerContainer ==
    \A name \in DOMAIN containers :
        /\ (error.kind = "TypeError" /\ error.at = <<name>>) =>
               containers[name] = Unrendered(name)
        /\ name \notin written => containers[name] = Unrendered(name)
        /\ name \in written => containers[name] # ResolvedOnly(name)


\* ------------------------------------------- one overlay per click

\* the overlays whose display a click on `target` changes
ChangedBy(target) ==
    {o \in DOMAIN display : OnClick(target, innerWidth, display)[o] # display[o]}

\* C19: every click changes at most one overlay: a click on an image at a
\* width of at least 1024 makes Visible the overlay beside the clicked image
\* and no other, leaving the others as they were; a click on a close control
\* or on an overlay's background hides the enclosing overlay only.
C19_OneOverlayPerClick ==
    onclick =>
        \A target \in Targets(display) :
            /\ Cardinality(ChangedBy(target)) <= 1
            /\ ChangedBy(target) \subseteq {target.ov}
            /\ (target.part = "skill-img" /\ innerWidth >= Threshold) =>
                   Visible(OnClick(target, innerWidth, display), target.ov)
            /\ (target.part \in {"close", "more-inf"} /\ innerWidth >= Threshold) =>
                   OnClick(target, innerWidth, display)[target.ov] = "none"

\* both overlays were opened and one of them was closed: the other is Visible
C19_Witness ==
    /\ onclick
    /\ DOMAIN display = {<<"personalInfo", 1>>, <<"skills", 1>>}
    /\ Visible(display, <<"personalInfo", 1>>)
    /\ display[<<"skills", 1>>] = "none"


\* --------------------------------------------- generated markup, verbatim

\* the markup generated from the items of a list, as the renderer's
\* map(...).join('') computes it
Generated(list, v, d) ==
    CASE list = "skills" ->
            MapJoin(At(d, <<"skills_section", "skills">>), LAMBDA x : Skill(v, x))
      [] list = "autobioCh" ->
            MapJoin(At(d, <<"autobiography_section", "paragraphs_ch">>), ParagraphCh)
      [] OTHER ->
            MapJoinIndexed(At(d, <<"experience_section", "jobs">>),
                           LAMBDA x, i : Job(v, x, i))

MarkerOf(list) ==
    CASE list = "skills" -> <<"id='skills-list'>">>
      [] list = "autobioCh" -> <<"id='autobio-ch-paragraphs'>">>
      [] OTHER -> <<"id='experience-list'>">>

\* the text of a container from its first marker on
FromMarker(html, marker) == SubStr(html, IndexOf(html, marker), Len(html))

\* C20: the markup a renderer generates from item fields is inserted into the
\* section's output verbatim: for every item value, the replacement patterns
\* of String.prototype.replace among them (a dollar sign before an ampersand,
\* a quote, a grave accent or another dollar sign), the text at the marker is
\* exactly the generated text, with nothing expanded, duplicated or dropped.
C20_GeneratedMarkupVerbatim ==
    \A list \in {"skills", "autobioCh", "experience"} \cap written :
        IsPrefix(MarkerOf(list) \o Generated(list, variant, data),
                 FromMarker(containers[list], MarkerOf(list)))


\* --------------------------------------------- a job without a description list

Separator == "<hr />"

JobOpener == "<div class='experience-item'>"

\* the job blocks and the separators of a container, in order
BlocksAndSeparators(html) == SelectSeq(html, LAMBDA g : g \in {Separator, JobOpener})

\* n job blocks with one separator between consecutive blocks
Separated(n) == [k \in 1..(2 * n - 1) |-> IF k % 2 = 1 THEN JobOpener ELSE Separator]

\* the text of the i-th job block of a container, from its opener on
BlockText(html, i) ==
    LET parts == Split(html, JobOpener)
    IN  IF Len(parts) > i THEN parts[i + 1] ELSE <<>>

\* a description list without an entry
EmptyList == <<"<ul class='experience-details-list'>", "</ul>">>

\* the index of the job a page gives a description that is no list
BadJob(d) == IF d.at[1] = "absent" THEN 1 ELSE 2

\* C21: in renderExperience a job whose description is absent or is not a
\* sequence does not fault: main ends without an error, the job's block is
\* emitted with its title, company and duration and an empty description
\* list, the other jobs and every section of the order are rendered, the
\* click handler is attached, and the blocks of the jobs have exactly one
\* separator between consecutive blocks and none before the first.
C21_BadDescriptionTolerated ==
    (Rendered /\ page # {} /\ page \subseteq BadDescriptions) =>
        /\ error = NoError
        /\ written = Names(RenderOrder(variant))
        /\ onclick
        /\ BlocksAndSeparators(containers["experience"])
              = Separated(Len(At(data, <<"experience_section", "jobs">>).v))
        /\ \A d \in page :
              LET job == At(data, <<"experience_section", "jobs">>).v[BadJob(d)]
                  block == BlockText(containers["experience"], BadJob(d))
              IN  /\ Contains(block, GetProp(job, K("title")).v)
                  /\ Contains(block, GetProp(job, K("company")).v)
                  /\ Contains(block, GetProp(job, K("duration")).v)
                  /\ Contains(block, EmptyList)

====
